---- MODULE Spec2Model ----
(***************************************************************************)
(* Transposition table of the svart engine (engine/src/body/tt.rs).        *)
(*                                                                         *)
(* A slot of the table is one AtomicU64.  TLC's integers are 32 bits wide, *)
(* so a 64-bit word is kept as its four 16-bit limbs <<l1, l2, l3, l4>>    *)
(* (least significant first) and a 64-bit hash key as its eight bytes      *)
(* (least significant first).  All machine arithmetic keeps the width the  *)
(* source gives it.                                                        *)
(***************************************************************************)
EXTENDS Integers, Sequences, FiniteSets, TLC

VARIABLES
    entries,          \* TT.entries: slot index -> 64-bit word
    epoch,            \* TT.epoch
    overflow_checks,  \* build profile: TRUE = arithmetic overflow panics, FALSE = it wraps
    panicked,         \* a panic has unwound the calling thread
    last,             \* the last API call, its arguments and what it observed
    calls,            \* number of store / age / reset calls made so far
    workers,          \* concurrent search workers: position and locals of each
    writes,           \* every word handed to an atomic store by TT::store
    passed,           \* every (key fragment, packed move) pair handed to TT::store
    holder,           \* per slot: the arguments of the store call that last wrote it
    fn                \* a call of a free function: its arguments and its results

vars == <<entries, epoch, overflow_checks, panicked, last, calls, workers, writes, passed,
          holder, fn>>

(***************************************************************************)
(* Bounds of the model.                                                    *)
(***************************************************************************)
TableLen == 2        \* slots of the table in the table specifications
MaxStores == 2       \* store calls per behaviour of Spec
MaxAges == 2         \* age calls per behaviour of Spec
MaxResets == 1       \* reset calls per behaviour of Spec
MaxEpochStores == 1  \* store calls per behaviour of SpecEpoch
MaxEpochAges == 65   \* age calls per behaviour of SpecEpoch
MaxEpochResets == 1  \* reset calls per behaviour of SpecEpoch
NWorkers == 2        \* concurrent search workers of SpecConc
MaxConcStores == 2   \* store calls per behaviour of SpecConc
MaxConcAges == 1     \* age calls per behaviour of SpecConc
MaxIndexLen == 3     \* small table lengths given to TT::index in SpecFn
MaxMb == 3           \* small memory budgets given to TT::new in SpecFn
ScoreSlack == 3      \* scores this close to a threshold or to an end of i16, in SpecFn
MaxFnPly == 3        \* small plies given to the score functions in SpecFn

(***************************************************************************)
(* Fixed-width integers.                                                   *)
(***************************************************************************)
U8 == 256
U16 == 65536
I16Max == 32767
I16Min == -32768

\* two's complement reinterpretation u16 <-> i16
AsI16(u) == IF u > I16Max THEN u - U16 ELSE u
AsU16(i) == IF i < 0 THEN i + U16 ELSE i
\* wrapping i16 arithmetic and the test the overflow checks of a debug build make
FitsI16(x) == x >= I16Min /\ x <= I16Max
WrapI16(x) == AsI16(x % U16)

(***************************************************************************)
(* crate::definitions (not part of the table's source file).               *)
(***************************************************************************)
NOMOVE == 0
TB_WIN_IN_PLY == 31744
TB_LOSS_IN_PLY == -31744

(***************************************************************************)
(* PackedMove: Option<Move> <-> u16.  A move is a record                   *)
(* [from, to, promotion]; an Option<Move> is <<>> (None) or <<m>> (Some).  *)
(***************************************************************************)
NoMove == <<>>
Some(m) == <<m>>
Promotions == {"None", "Knight", "Bishop", "Rook", "Queen"}
Pieces == {"Pawn", "Knight", "Bishop", "Rook", "Queen", "King"}

Mv(f, t, p) == [from |-> f, to |-> t, promotion |-> p]

\* the match of PackedMove::new; Pawn and King hit unreachable!()
PromotionTag(p) ==
    CASE p = "None" -> 0
      [] p = "Knight" -> 4
      [] p = "Bishop" -> 5
      [] p = "Rook" -> 6
      [] p = "Queen" -> 7

PackedMove_new_unreachable(mv) ==
    mv # NoMove /\ mv[1].promotion \notin Promotions

\* a packing whose promotion tag starts one bit too low, over the top bit of `to`
PackedMove_new_tag_shift11(mv) ==
    IF mv = NoMove THEN NOMOVE
    ELSE (mv[1].from + mv[1].to * 64 + PromotionTag(mv[1].promotion) * 2048) % U16

PackedMove_new(mv) ==
    IF mv = NoMove THEN NOMOVE
    ELSE mv[1].from + mv[1].to * 64 + PromotionTag(mv[1].promotion) * 4096

\* the match of PackedMove::unpack; tags 1, 2, 3 hit unreachable!()
PackedMove_unpack_unreachable(w) == ((w \div 4096) % 8) \in {1, 2, 3}

PackedMove_unpack(w) ==
    LET tag == (w \div 4096) % 8
    IN  Mv(w % 64, (w \div 64) % 64,
           CASE tag = 0 -> "None"
             [] tag = 4 -> "Knight"
             [] tag = 5 -> "Bishop"
             [] tag = 6 -> "Rook"
             [] tag = 7 -> "Queen"
             [] OTHER -> "unreachable")

(***************************************************************************)
(* AgeAndFlag: 6 bits of age, 2 bits of flag, in one u8.                   *)
(***************************************************************************)
TTFlag == {"None", "Exact", "LowerBound", "UpperBound"}

FlagBits(flag) ==
    CASE flag = "None" -> 0
      [] flag = "Exact" -> 1
      [] flag = "LowerBound" -> 2
      [] flag = "UpperBound" -> 3

\* an encoding that shifts the age by one bit only, under the flag's high bit
AgeAndFlag_new_shift1(a, flag) == ((a * 2) % U8) + FlagBits(flag)

\* age << 2 | flag in u8: the shift drops the bits above bit 7
AgeAndFlag_new(a, flag) == ((a * 4) % U8) + FlagBits(flag)

AgeAndFlag_age(b) == b \div 4

AgeAndFlag_flag(b) ==
    CASE b % 4 = 0 -> "None"
      [] b % 4 = 1 -> "Exact"
      [] b % 4 = 2 -> "LowerBound"
      [] b % 4 = 3 -> "UpperBound"

(***************************************************************************)
(* TTEntry and its reinterpretation as a u64.  The fields sit in the word  *)
(* in declaration order: mv, key, score, then depth (low byte) and         *)
(* age_flag (high byte) of the last limb.                                  *)
(***************************************************************************)
ZeroWord == <<0, 0, 0, 0>>

TTEntry(mv, key, score, depth, age_flag) ==
    [mv |-> mv, key |-> key, score |-> score, depth |-> depth, age_flag |-> age_flag]

TTEntry_from_u64(w) ==
    TTEntry(w[1], w[2], AsI16(w[3]), w[4] % U8, w[4] \div U8)

u64_from_TTEntry(e) ==
    <<e.mv, e.key, AsU16(e.score), e.depth + U8 * e.age_flag>>

\* (age * 2 + self.depth) as u16: the sum is formed in u8 and only then widened
TTEntry_quality_overflows(e) == AgeAndFlag_age(e.age_flag) * 2 + e.depth >= U8

TTEntry_quality(e) == (AgeAndFlag_age(e.age_flag) * 2 + e.depth) % U8

\* age*2 + depth as the integer the documentation means
Quality(e) == AgeAndFlag_age(e.age_flag) * 2 + e.depth

(***************************************************************************)
(* Score normalization.  ply is a usize; `ply as i16` keeps its low 16     *)
(* bits.                                                                   *)
(***************************************************************************)
PlyAsI16(ply) == AsI16(ply % U16)

score_to_tt_exact(score, ply) ==
    IF score >= TB_WIN_IN_PLY THEN score + PlyAsI16(ply)
    ELSE IF score <= TB_LOSS_IN_PLY THEN score - PlyAsI16(ply)
    ELSE score

score_to_tt_overflows(score, ply) == ~FitsI16(score_to_tt_exact(score, ply))

\* score_to_tt with the win threshold compared by > instead of >=
score_to_tt_strict(score, ply) ==
    WrapI16(IF score > TB_WIN_IN_PLY THEN score + PlyAsI16(ply)
            ELSE IF score <= TB_LOSS_IN_PLY THEN score - PlyAsI16(ply)
            ELSE score)

score_to_tt(score, ply) == WrapI16(score_to_tt_exact(score, ply))

score_from_tt_exact(score, ply) ==
    IF score >= TB_WIN_IN_PLY THEN score - PlyAsI16(ply)
    ELSE IF score <= TB_LOSS_IN_PLY THEN score + PlyAsI16(ply)
    ELSE score

score_from_tt_overflows(score, ply) == ~FitsI16(score_from_tt_exact(score, ply))

score_from_tt(score, ply) == WrapI16(score_from_tt_exact(score, ply))

(***************************************************************************)
(* Wide unsigned arithmetic on little-endian byte strings, for the u128    *)
(* product of TT::index, and u32 arithmetic on <<low 16 bits, high 16      *)
(* bits>>, for the size computation of TT::new.                            *)
(***************************************************************************)
RECURSIVE ToBytes(_, _)
ToBytes(n, k) == IF k = 0 THEN <<>> ELSE <<n % U8>> \o ToBytes(n \div U8, k - 1)

RECURSIVE FromBytes(_)
FromBytes(b) == IF b = <<>> THEN 0 ELSE b[1] + U8 * FromBytes(Tail(b))

\* u64 as u128: eight zero bytes on top
U64AsU128(k) == k \o ToBytes(0, 8)

RECURSIVE ColumnSum(_, _, _, _)
ColumnSum(a, b, k, i) ==
    IF i > k THEN 0 ELSE a[i] * b[k + 1 - i] + ColumnSum(a, b, k, i + 1)

RECURSIVE MulDigits(_, _, _, _)
MulDigits(a, b, k, carry) ==
    IF k > 16 THEN <<>>
    ELSE LET s == carry + ColumnSum(a, b, k, 1)
         IN  <<s % U8>> \o MulDigits(a, b, k + 1, s \div U8)

\* a * b in u128 (the low 128 bits of the product)
MulU128(a, b) == MulDigits(a, b, 1, 0)

\* x >> 64 in u128
Shr64U128(x) == SubSeq(x, 9, 16) \o ToBytes(0, 8)

\* x as usize, on a 64-bit target
U128AsUsize(x) == SubSeq(x, 1, 8)

U32(n) == <<n % U16, n \div U16>>

\* x * m in u32 for a factor m < 2^15, and whether the product leaves u32
MulU32Overflows(x, m) == (x[2] * m + (x[1] * m) \div U16) >= U16

MulU32(x, m) == <<(x[1] * m) % U16, (x[2] * m + (x[1] * m) \div U16) % U16>>

\* x / d in u32 for a divisor d of 65536
DivU32(x, d) == x[2] * (U16 \div d) + x[1] \div d

(***************************************************************************)
(* TT                                                                      *)
(***************************************************************************)
EPOCH_MAX == 63
SizeOfTTEntry == 8
Mebi == 1024

\* TT::new: hash_size = mb * 1024 * 1024 and size = hash_size / 8, all in u32
TT_new_overflows(mb) ==
    \/ MulU32Overflows(U32(mb), Mebi)
    \/ MulU32Overflows(MulU32(U32(mb), Mebi), Mebi)

TT_new_size(mb) == DivU32(MulU32(MulU32(U32(mb), Mebi), Mebi), SizeOfTTEntry)

\* the vector TT::new fills and the epoch it sets
TT_new_entries(size) == [i \in 0 .. size - 1 |-> ZeroWord]

TT_new_epoch == 0

TableSize(es) == Cardinality(DOMAIN es)

\* the index with the product shifted by 63 bits instead of 64
Index_shr63(len, key) ==
    LET p == MulU128(U64AsU128(key), ToBytes(len, 16))
    IN  2 * FromBytes(U128AsUsize(Shr64U128(p))) + p[8] \div 128

\* ((key as u128 * len as u128) >> 64) as usize
Index_u128(len, key) ==
    FromBytes(U128AsUsize(Shr64U128(MulU128(U64AsU128(key), ToBytes(len, 16)))))

\* the hash keys of the table specifications: 5 (the key of tests::tt_reset),
\* 6 (same slot, another fragment) and 2^63 + 5 (same fragment, another slot)
Key64(lo, hi) == <<lo, 0, 0, 0, 0, 0, 0, hi>>
Keys == {Key64(5, 0), Key64(6, 0), Key64(5, 128)}

\* the key whose low 16 bits are all zero, as the fragment of an empty slot is
ZeroKey == Key64(0, 0)
TableKeys == Keys \cup {ZeroKey}

\* Index_u128 of the keys above, evaluated once
IndexOfKeys == [k \in TableKeys |-> Index_u128(TableLen, k)]

TT_index(len, key) ==
    IF len = TableLen /\ key \in TableKeys THEN IndexOfKeys[key] ELSE Index_u128(len, key)

\* key as u16
KeyAsU16(key) == key[1] + U8 * key[2]

\* an atomic load / store of one slot
AtomicLoad(slot) == slot

\* a store that writes the low half of the word only
Store_torn(slot, word) == <<word[1], word[2], slot[3], slot[4]>>

AtomicStore(slot, word) == word

TT_probe(es, key) == TTEntry_from_u64(AtomicLoad(es[TT_index(TableSize(es), key)]))

\* the closure of the sweep in TT::age
\* a sweep that stores the word back with its age
AgeSweep_keeps_age(w) == w

\* a sweep that builds the byte from age 0 and the flag None
AgeSweep_drops_flag(w) ==
    LET e == TTEntry_from_u64(AtomicLoad(w))
    IN  AtomicStore(w, u64_from_TTEntry([e EXCEPT !.age_flag = AgeAndFlag_new(0, "None")]))

AgeSweep(w) ==
    LET e == TTEntry_from_u64(AtomicLoad(w))
    IN  AtomicStore(w, u64_from_TTEntry(
            [e EXCEPT !.age_flag = AgeAndFlag_new(0, AgeAndFlag_flag(e.age_flag))]))

\* age() with the sweep at every generation
Age_sweeps_always(es, ep) ==
    [entries |-> [i \in DOMAIN es |-> AgeSweep(es[i])],
     epoch |-> IF ep = EPOCH_MAX THEN 1 ELSE ep + 1]

\* age() without the test for EPOCH_MAX
Age_never_wraps(es, ep) == [entries |-> es, epoch |-> ep + 1]

\* age() without the increment after the sweep
Age_wraps_to_zero(es, ep) ==
    IF ep = EPOCH_MAX
    THEN [entries |-> [i \in DOMAIN es |-> AgeSweep(es[i])], epoch |-> 0]
    ELSE [entries |-> es, epoch |-> ep + 1]

TT_age(es, ep) ==
    IF ep = EPOCH_MAX
    THEN [entries |-> [i \in DOMAIN es |-> AgeSweep(es[i])], epoch |-> 0 + 1]
    ELSE [entries |-> es, epoch |-> ep + 1]

\* a reset that leaves slot 0 alone
Reset_skips_first(es) == [i \in DOMAIN es |-> IF i = 0 THEN es[i] ELSE AtomicStore(es[i], ZeroWord)]

TT_reset(es) == [i \in DOMAIN es |-> AtomicStore(es[i], ZeroWord)]

\* TT::store, in the order the code runs it: the candidate entry, ...
StoreEntry(ep, key, mv, score, depth, flag, ply) ==
    TTEntry(PackedMove_new(mv), KeyAsU16(key), score_to_tt(score, ply), depth,
            AgeAndFlag_new(ep, flag))

\* a test that lets every candidate replace the target
StoreReplaces_always(entry, target) == TRUE

\* ... the replacement test, ...
StoreReplaces(entry, target) == TTEntry_quality(entry) >= TTEntry_quality(target)

\* a merge that keeps the target's move whenever the call has none
StoreMerge_keeps_move(target, entry, mv) ==
    LET t == [target EXCEPT !.key = entry.key, !.score = entry.score,
                            !.depth = entry.depth, !.age_flag = entry.age_flag]
    IN  IF mv # NoMove THEN [t EXCEPT !.mv = entry.mv] ELSE t

\* ... the merge into the loaded target, ...
StoreMerge(target, entry, mv) ==
    LET positions_differ == target.key # entry.key
        t == [target EXCEPT !.key = entry.key, !.score = entry.score,
                            !.depth = entry.depth, !.age_flag = entry.age_flag]
    IN  IF mv # NoMove \/ positions_differ THEN [t EXCEPT !.mv = entry.mv] ELSE t

\* ... and the panics an overflow-checking build raises on the way
StorePanics(checks, target, ep, key, mv, score, depth, flag, ply) ==
    \/ PackedMove_new_unreachable(mv)
    \/ checks /\ score_to_tt_overflows(score, ply)
    \/ checks /\ TTEntry_quality_overflows(
                     StoreEntry(ep, key, mv, score, depth, flag, ply))
    \/ checks /\ TTEntry_quality_overflows(target)

\* whether TT::store, having loaded `word`, writes, and the merged record it writes
StoreWrites(word, ep, key, mv, score, depth, flag, ply) ==
    StoreReplaces(StoreEntry(ep, key, mv, score, depth, flag, ply), TTEntry_from_u64(word))

StoreMerged(word, ep, key, mv, score, depth, flag, ply) ==
    u64_from_TTEntry(StoreMerge(TTEntry_from_u64(word),
                                StoreEntry(ep, key, mv, score, depth, flag, ply), mv))

\* the word TT::store leaves in the slot it loaded `word` from, when no other
\* thread writes the slot in between
StoreWord(word, ep, key, mv, score, depth, flag, ply) ==
    IF StoreWrites(word, ep, key, mv, score, depth, flag, ply)
    THEN AtomicStore(word, StoreMerged(word, ep, key, mv, score, depth, flag, ply))
    ELSE word

TT_store(es, ep, key, mv, score, depth, flag, ply) ==
    LET i == TT_index(TableSize(es), key)
    IN  [es EXCEPT ![i] = StoreWord(AtomicLoad(es[i]), ep, key, mv, score, depth, flag, ply)]

(***************************************************************************)
(* Spec: one thread drives the table through its API (store, probe, age,   *)
(* reset), starting from TT::new.                                          *)
(***************************************************************************)
\* moves: none, and A1 -> A2 (the move of tests::tt_reset)
Moves == {NoMove, Some(Mv(0, 8, "None"))}
\* search results: the score and flag of tests::tt_reset, and an exact win score
Results == {[score |-> 1, flag |-> "UpperBound"], [score |-> TB_WIN_IN_PLY, flag |-> "Exact"]}
Depths == {3, 254}
Plies == {22}

NoWorkers == <<>>
NoCall == [op |-> "none"]
NoHolder == [key |-> <<>>, mv |-> NoMove]

Init ==
    /\ entries = TT_new_entries(TableLen)
    /\ epoch = TT_new_epoch
    /\ overflow_checks \in BOOLEAN
    /\ panicked = FALSE
    /\ last = [op |-> "new"]
    /\ calls = [store |-> 0, age |-> 0, reset |-> 0]
    /\ holder = [i \in 0 .. TableLen - 1 |-> NoHolder]
    /\ workers = NoWorkers
    /\ writes = {}
    /\ passed = {}
    /\ fn = NoCall

Store(key, mv, score, depth, flag, ply) ==
    LET i == TT_index(TableSize(entries), key)
        old == entries[i]
        target == TTEntry_from_u64(old)
        entry == StoreEntry(epoch, key, mv, score, depth, flag, ply)
        panics == StorePanics(overflow_checks, target, epoch, key, mv, score, depth, flag, ply)
    IN  /\ ~panicked
        /\ calls' = [calls EXCEPT !.store = @ + 1]
        /\ last' = [op |-> "store", key |-> key, mv |-> mv, score |-> score,
                    depth |-> depth, flag |-> flag, ply |-> ply, slot |-> i,
                    old |-> old, held |-> holder[i], epoch |-> epoch]
        /\ panicked' = panics
        /\ entries' = IF panics THEN entries
                      ELSE TT_store(entries, epoch, key, mv, score, depth, flag, ply)
        /\ holder' = IF ~panics /\ StoreReplaces(entry, target)
                     THEN [holder EXCEPT ![i] = [key |-> key, mv |-> mv]]
                     ELSE holder
        /\ passed' = passed \cup {[key |-> entry.key, mv |-> entry.mv]}
        /\ UNCHANGED <<epoch, overflow_checks, workers, writes, fn>>

Probe(key) ==
    /\ ~panicked
    /\ last' = [op |-> "probe", key |-> key, entry |-> TT_probe(entries, key)]
    /\ UNCHANGED <<entries, epoch, overflow_checks, panicked, calls, holder, workers, writes,
                   passed, fn>>

Age ==
    /\ ~panicked
    /\ calls' = [calls EXCEPT !.age = @ + 1]
    /\ last' = [op |-> "age", epoch |-> epoch, old |-> entries]
    /\ entries' = TT_age(entries, epoch).entries
    /\ epoch' = TT_age(entries, epoch).epoch
    /\ UNCHANGED <<overflow_checks, panicked, holder, workers, writes, passed, fn>>

Reset ==
    /\ ~panicked
    /\ calls' = [calls EXCEPT !.reset = @ + 1]
    /\ last' = [op |-> "reset", dirty |-> \E i \in DOMAIN entries : entries[i] # ZeroWord]
    /\ entries' = TT_reset(entries)
    /\ holder' = [i \in DOMAIN holder |-> NoHolder]
    /\ UNCHANGED <<epoch, overflow_checks, panicked, workers, writes, passed, fn>>

StoreCall ==
    /\ calls.store < MaxStores
    /\ \E key \in Keys, mv \in Moves, r \in Results, depth \in Depths, ply \in Plies :
          Store(key, mv, r.score, depth, r.flag, ply)

ProbeCall == \E key \in Keys : Probe(key)

AgeCall == calls.age < MaxAges /\ Age

ResetCall == calls.reset < MaxResets /\ Reset

Next == StoreCall \/ ProbeCall \/ AgeCall \/ ResetCall

Spec == Init /\ [][Next]_vars

(***************************************************************************)
(* Claims about the sequential API (checked under Spec).                   *)
(***************************************************************************)
\* the candidate entry of the last store call, and the entry its slot held
LastEntry ==
    StoreEntry(last.epoch, last.key, last.mv, last.score, last.depth, last.flag, last.ply)
LastTarget == TTEntry_from_u64(last.old)

\* C1: a store whose candidate quality (generation*2 + depth) is strictly lower
\* than the quality (age*2 + depth) of the entry in an occupied slot leaves the
\* slot's word as it was.
C1_LowerQualityStoreWritesNothing ==
    (/\ last.op = "store"
     /\ last.old # ZeroWord
     /\ Quality(LastEntry) < Quality(LastTarget))
        => entries[last.slot] = last.old

\* C2: after store(K, Some(m), ..) wrote a slot, a store(K, None, ..) of greater or
\* equal quality makes probe(K) return m with the second call's table-space
\* score, depth and flag.
C2_BoundOnlyUpdateKeepsMove ==
    (/\ last.op = "store"
     /\ last.mv = NoMove
     /\ last.held.key = last.key
     /\ last.held.mv # NoMove
     /\ Quality(LastEntry) >= Quality(LastTarget))
        => LET e == TT_probe(entries, last.key)
           IN  /\ e.mv = PackedMove_new(last.held.mv)
               /\ PackedMove_unpack(e.mv) = last.held.mv[1]
               /\ e.score = score_to_tt(last.score, last.ply)
               /\ e.depth = last.depth
               /\ AgeAndFlag_flag(e.age_flag) = last.flag

\* C3: after store(key, Some(mv), score, depth, flag, ply) of greater or equal
\* quality than the entry in the slot, probe(key) returns the low 16 bits of key,
\* mv, the table-space score, depth, flag and the current generation as age.
C3_StoreThenProbe ==
    (/\ last.op = "store"
     /\ last.mv # NoMove
     /\ Quality(LastEntry) >= Quality(LastTarget))
        => LET e == TT_probe(entries, last.key)
           IN  /\ e.key = KeyAsU16(last.key)
               /\ PackedMove_unpack(e.mv) = last.mv[1]
               /\ e.score = score_to_tt(last.score, last.ply)
               /\ e.depth = last.depth
               /\ AgeAndFlag_flag(e.age_flag) = last.flag
               /\ AgeAndFlag_age(e.age_flag) = epoch

\* C4: right after reset() every slot is the zero word, and probing any key gives
\* key fragment 0, score 0, depth 0, age 0, flag None and the "no move" sentinel.
C4_ResetClearsEverySlot ==
    last.op = "reset" =>
        /\ \A i \in DOMAIN entries : entries[i] = ZeroWord
        /\ \A k \in Keys :
              LET e == TT_probe(entries, k)
              IN  /\ e.key = 0 /\ e.score = 0 /\ e.depth = 0
                  /\ AgeAndFlag_age(e.age_flag) = 0
                  /\ AgeAndFlag_flag(e.age_flag) = "None"
                  /\ e.mv = NOMOVE

\* a reset of a table in which a store had written and the generation had moved
C4_Witness == last.op = "reset" /\ last.dirty /\ epoch > 0

(***************************************************************************)
(* SpecEpoch: the generation counter over a whole epoch and its wrap.  The *)
(* same table and operations as Spec, with enough age() calls to pass      *)
(* EPOCH_MAX and stores of one shallow result.                             *)
(***************************************************************************)
\* the stores of this specification: a bound with a move under each key, and
\* under the zero key a result with no move, score 0, depth 0 and flag None
\* and one of depth 254
EpochStores ==
    {[key |-> key, mv |-> Some(Mv(0, 8, "None")), score |-> 1, depth |-> 3,
      flag |-> "UpperBound"] : key \in Keys}
    \cup {[key |-> ZeroKey, mv |-> NoMove, score |-> 0, depth |-> d, flag |-> "None"] :
              d \in {0, 254}}

EpochStoreCall ==
    /\ calls.store < MaxEpochStores
    /\ \E a \in EpochStores, ply \in Plies :
          Store(a.key, a.mv, a.score, a.depth, a.flag, ply)

EpochAgeCall == calls.age < MaxEpochAges /\ Age

EpochResetCall == calls.reset < MaxEpochResets /\ Reset

NextEpoch == EpochStoreCall \/ EpochAgeCall \/ EpochResetCall

SpecEpoch == Init /\ [][NextEpoch]_vars

\* C5: from a new table, after n <= 63 calls of age() the generation is n; the
\* 64th call leaves the generation at 1 and the age of every slot at 0.
C5_EpochWrap ==
    /\ calls.age <= EPOCH_MAX => epoch = calls.age
    /\ (calls.age = EPOCH_MAX + 1 /\ last.op = "age") =>
          /\ last.epoch = EPOCH_MAX
          /\ epoch = 1
          /\ \A i \in DOMAIN entries :
                AgeAndFlag_age(TTEntry_from_u64(entries[i]).age_flag) = 0

\* the 64th age() call on a table holding an entry of non-zero age
C5_Witness ==
    /\ calls.age = EPOCH_MAX + 1
    /\ last.op = "age"
    /\ \E i \in DOMAIN entries :
          AgeAndFlag_age(TTEntry_from_u64(last.old[i]).age_flag) > 0

(***************************************************************************)
(* SpecConc: search workers probe and store concurrently (&self).  A       *)
(* store is two steps, the atomic load of the slot and the atomic store of *)
(* the merged record; the comparison and the merge in between touch only   *)
(* the worker's locals.  A probe is one atomic load.                       *)
(***************************************************************************)
Workers == 1 .. NWorkers

\* the workers contend for one slot: two keys of slot 0 with different fragments
ConcKeys == {Key64(5, 0), Key64(6, 0)}

\* the moves the workers store: none, and a promotion to a queen
ConcMoves == {NoMove, Some(Mv(48, 56, "Queen"))}

IdleWorker == [pc |-> "idle", call |-> <<>>, target |-> ZeroWord, seen |-> <<>>]

InitConc ==
    /\ entries = TT_new_entries(TableLen)
    /\ epoch = TT_new_epoch
    /\ overflow_checks \in BOOLEAN
    /\ panicked = FALSE
    /\ last = [op |-> "new"]
    /\ calls = [store |-> 0, age |-> 0, reset |-> 0]
    /\ holder = [i \in 0 .. TableLen - 1 |-> NoHolder]
    /\ workers = [w \in Workers |-> IdleWorker]
    /\ writes = {}
    /\ passed = {}
    /\ fn = NoCall

\* store, lines 189-191: the index and the load of the target
WStoreLoad(w, key, mv, score, depth, flag, ply) ==
    /\ workers[w].pc = "idle"
    /\ calls.store < MaxConcStores
    /\ calls' = [calls EXCEPT !.store = @ + 1]
    /\ workers' = [workers EXCEPT ![w] =
          [@ EXCEPT !.pc = "loaded",
                    !.call = <<[key |-> key, mv |-> mv, score |-> score, depth |-> depth,
                                flag |-> flag, ply |-> ply]>>,
                    !.target = AtomicLoad(entries[TT_index(TableSize(entries), key)])]]
    /\ passed' = passed \cup {[key |-> KeyAsU16(key), mv |-> PackedMove_new(mv)]}
    /\ UNCHANGED <<entries, epoch, overflow_checks, panicked, last, holder, writes, fn>>

\* store, lines 193-216: the candidate, the test, the merge and the store
WStoreWrite(w) ==
    /\ workers[w].pc = "loaded"
    /\ LET c == workers[w].call[1]
           t == workers[w].target
           i == TT_index(TableSize(entries), c.key)
           panics == StorePanics(overflow_checks, TTEntry_from_u64(t), epoch, c.key, c.mv,
                                 c.score, c.depth, c.flag, c.ply)
           does == StoreWrites(t, epoch, c.key, c.mv, c.score, c.depth, c.flag, c.ply)
           word == StoreMerged(t, epoch, c.key, c.mv, c.score, c.depth, c.flag, c.ply)
       IN  /\ workers' = [workers EXCEPT ![w] =
                 [@ EXCEPT !.pc = IF panics THEN "panicked" ELSE "idle", !.call = <<>>,
                           !.target = ZeroWord]]
           /\ entries' = IF ~panics /\ does
                         THEN [entries EXCEPT ![i] = AtomicStore(@, word)]
                         ELSE entries
           /\ writes' = IF ~panics /\ does THEN writes \cup {word} ELSE writes
    /\ UNCHANGED <<epoch, overflow_checks, panicked, last, calls, holder, passed, fn>>

\* probe: one atomic load
WProbe(w, key) ==
    /\ workers[w].pc = "idle"
    /\ workers' = [workers EXCEPT ![w] =
          [@ EXCEPT !.seen = <<AtomicLoad(entries[TT_index(TableSize(entries), key)])>>]]
    /\ UNCHANGED <<entries, epoch, overflow_checks, panicked, last, calls, holder, writes,
                   passed, fn>>

WStoreLoadCall ==
    \E w \in Workers, key \in ConcKeys, mv \in ConcMoves, depth \in Depths, ply \in Plies :
        WStoreLoad(w, key, mv, 1, depth, "UpperBound", ply)

WStoreWriteStep == \E w \in Workers : WStoreWrite(w)

WProbeCall == \E w \in Workers, key \in ConcKeys : WProbe(w, key)

\* age(&mut self): called between searches, when no worker is inside a store;
\* what the workers of the finished search had probed is gone with them
QuiescentAgeCall ==
    /\ \A w \in Workers : workers[w].pc # "loaded"
    /\ calls.age < MaxConcAges
    /\ calls' = [calls EXCEPT !.age = @ + 1]
    /\ entries' = TT_age(entries, epoch).entries
    /\ epoch' = TT_age(entries, epoch).epoch
    /\ workers' = [w \in Workers |-> [workers[w] EXCEPT !.seen = <<>>]]
    /\ UNCHANGED <<overflow_checks, panicked, last, holder, writes, passed, fn>>

NextConc == WStoreLoadCall \/ WStoreWriteStep \/ WProbeCall \/ QuiescentAgeCall

SpecConc == InitConc /\ [][NextConc]_vars

\* C6: whatever the interleaving of probes and stores, a probe returns the zero
\* word or the complete merged record that one store call wrote.
C6_NoTornRead ==
    \A w \in Workers :
        workers[w].seen # <<>> =>
            (workers[w].seen[1] = ZeroWord \/ workers[w].seen[1] \in writes)

\* a probe returned a written record while another worker sits between its load
\* and its store with a target that the slot no longer holds
C6_Witness ==
    \E w, v \in Workers :
        /\ w # v
        /\ workers[w].seen # <<>>
        /\ workers[w].seen[1] # ZeroWord
        /\ workers[v].pc = "loaded"
        /\ workers[v].target #
              entries[TT_index(TableSize(entries), workers[v].call[1].key)]

(***************************************************************************)
(* SpecFn: single calls of TT::new, TT::index and of the score functions,  *)
(* on arguments drawn from the edges of their domains.                     *)
(***************************************************************************)
\* table lengths: small ones, 1 MB worth of entries, and the longest table a u32
\* byte count allows
LargestLen == 536870911
OneMbLen == 131072
IndexLens == (1 .. MaxIndexLen) \cup {OneMbLen, LargestLen}
\* hash keys: every byte 0 or 255 (among them 0 and 2^64 - 1), and the keys above
IndexKeys == {<<b[1], b[2], b[3], b[4], b[5], b[6], b[7], b[8]>> : b \in [1 .. 8 -> {0, 255}]}
                 \cup Keys
\* memory budgets in MB: small ones, and the first whose byte count leaves u32
FirstWrappingMb == 4096
NewMbs == (1 .. MaxMb) \cup {FirstWrappingMb - 1, FirstWrappingMb}
\* scores around the ends of i16, the two thresholds and zero
FnScores ==
    {x \in UNION {(c - ScoreSlack) .. (c + ScoreSlack) :
                     c \in {I16Min, TB_LOSS_IN_PLY, 0, TB_WIN_IN_PLY, I16Max}} : FitsI16(x)}
\* plies: small ones, the ply of tests::tt_reset, and one above i16::MAX
WidePly == 65535
FnPlies == (0 .. MaxFnPly) \cup {22, WidePly}

\* squares, as cozy_chess numbers them
Squares == 0 .. 63
\* the generations TT::age lets the table have
Ages == 0 .. EPOCH_MAX
\* 16-bit words: corner squares under each value of the four top bits
UnpackWords == {f + t * 64 + hi * 4096 : f \in {0, 63}, t \in {0, 63}, hi \in 0 .. 15}
\* depths at the ends of u8 and around the first sums that leave it
QualityDepths == {0, 1, 3, 128, 129, 130, 192, 253, 254, 255}

InitFn ==
    /\ entries = TT_new_entries(TableLen)
    /\ epoch = TT_new_epoch
    /\ overflow_checks \in BOOLEAN
    /\ panicked = FALSE
    /\ last = [op |-> "new"]
    /\ calls = [store |-> 0, age |-> 0, reset |-> 0]
    /\ holder = [i \in 0 .. TableLen - 1 |-> NoHolder]
    /\ workers = NoWorkers
    /\ writes = {}
    /\ passed = {}
    /\ \/ \E len \in IndexLens, key \in IndexKeys :
             fn = [op |-> "index", done |-> FALSE, len |-> len, key |-> key]
       \/ \E mb \in NewMbs : fn = [op |-> "new", done |-> FALSE, mb |-> mb]
       \/ \E score \in FnScores, ply \in FnPlies :
             fn = [op |-> "to_from", done |-> FALSE, score |-> score, ply |-> ply]
       \/ \E score \in FnScores, ply \in FnPlies :
             fn = [op |-> "from_to", done |-> FALSE, score |-> score, ply |-> ply]
       \/ \E f \in Squares, t \in Squares, p \in Promotions :
             fn = [op |-> "pack", done |-> FALSE, mv |-> Mv(f, t, p)]
       \/ \E a \in Ages, flag \in TTFlag :
             fn = [op |-> "age_flag", done |-> FALSE, age |-> a, flag |-> flag]
       \/ \E w \in UnpackWords : fn = [op |-> "unpack", done |-> FALSE, word |-> w]
       \/ \E a \in Ages, d \in QualityDepths :
             fn = [op |-> "quality", done |-> FALSE, age |-> a, depth |-> d]

FnFrame == UNCHANGED <<entries, epoch, overflow_checks, panicked, last, calls, holder,
                       workers, writes, passed>>

\* TT::index on a table of fn.len entries
CallIndex ==
    /\ fn.op = "index" /\ ~fn.done
    /\ fn' = [op |-> "index", done |-> TRUE, len |-> fn.len, key |-> fn.key,
              ret |-> TT_index(fn.len, fn.key)]
    /\ FnFrame

\* TT::new: the length of the vector, its first slots and the epoch
CallNew ==
    /\ fn.op = "new" /\ ~fn.done
    /\ LET size == TT_new_size(fn.mb)
       IN  fn' = [op |-> "new", done |-> TRUE, mb |-> fn.mb,
                  panics |-> overflow_checks /\ TT_new_overflows(fn.mb),
                  size |-> size,
                  first |-> TT_new_entries(IF size < TableLen THEN size ELSE TableLen),
                  epoch |-> TT_new_epoch]
    /\ FnFrame

\* score_from_tt(score_to_tt(score, ply), ply)
CallToFrom ==
    /\ fn.op = "to_from" /\ ~fn.done
    /\ LET mid == score_to_tt(fn.score, fn.ply)
       IN  fn' = [op |-> "to_from", done |-> TRUE, score |-> fn.score, ply |-> fn.ply,
                  panics |-> overflow_checks /\ (\/ score_to_tt_overflows(fn.score, fn.ply)
                                                 \/ score_from_tt_overflows(mid, fn.ply)),
                  mid |-> mid,
                  back |-> score_from_tt(mid, fn.ply)]
    /\ FnFrame

\* score_to_tt(score_from_tt(score, ply), ply)
CallFromTo ==
    /\ fn.op = "from_to" /\ ~fn.done
    /\ LET mid == score_from_tt(fn.score, fn.ply)
       IN  fn' = [op |-> "from_to", done |-> TRUE, score |-> fn.score, ply |-> fn.ply,
                  panics |-> overflow_checks /\ (\/ score_from_tt_overflows(fn.score, fn.ply)
                                                 \/ score_to_tt_overflows(mid, fn.ply)),
                  mid |-> mid,
                  back |-> score_to_tt(mid, fn.ply)]
    /\ FnFrame

\* PackedMove::new(Some(mv)).unpack()
CallPack ==
    /\ fn.op = "pack" /\ ~fn.done
    /\ LET packed == PackedMove_new(Some(fn.mv))
       IN  fn' = [op |-> "pack", done |-> TRUE, mv |-> fn.mv,
                  panics |-> \/ PackedMove_new_unreachable(Some(fn.mv))
                             \/ PackedMove_unpack_unreachable(packed),
                  packed |-> packed,
                  back |-> PackedMove_unpack(packed)]
    /\ FnFrame

\* AgeAndFlag::new(age, flag), then age() and flag() of the byte
CallAgeFlag ==
    /\ fn.op = "age_flag" /\ ~fn.done
    /\ LET byte == AgeAndFlag_new(fn.age, fn.flag)
       IN  fn' = [op |-> "age_flag", done |-> TRUE, age |-> fn.age, flag |-> fn.flag,
                  byte |-> byte,
                  age_back |-> AgeAndFlag_age(byte),
                  flag_back |-> AgeAndFlag_flag(byte)]
    /\ FnFrame

\* PackedMove(word).unpack()
CallUnpack ==
    /\ fn.op = "unpack" /\ ~fn.done
    /\ fn' = [op |-> "unpack", done |-> TRUE, word |-> fn.word,
              panics |-> PackedMove_unpack_unreachable(fn.word),
              ret |-> PackedMove_unpack(fn.word)]
    /\ FnFrame

\* TTEntry::quality of an entry of the given age and depth
CallQuality ==
    /\ fn.op = "quality" /\ ~fn.done
    /\ LET e == TTEntry(NOMOVE, 0, 0, fn.depth, AgeAndFlag_new(fn.age, "None"))
       IN  fn' = [op |-> "quality", done |-> TRUE, age |-> fn.age, depth |-> fn.depth,
                  panics |-> overflow_checks /\ TTEntry_quality_overflows(e),
                  ret |-> TTEntry_quality(e)]
    /\ FnFrame

NextFn ==
    \/ CallIndex \/ CallNew \/ CallToFrom \/ CallFromTo
    \/ CallPack \/ CallAgeFlag \/ CallUnpack \/ CallQuality

SpecFn == InitFn /\ [][NextFn]_vars

\* C7: for every 64-bit key and every positive length, index(key) < length.
C7_IndexInBounds ==
    (fn.op = "index" /\ fn.done) => (fn.ret >= 0 /\ fn.ret < fn.len)

\* index of the largest key on the longest table: the last slot
C7_Witness ==
    /\ fn.op = "index" /\ fn.done
    /\ fn.key = <<255, 255, 255, 255, 255, 255, 255, 255>>
    /\ fn.len = LargestLen
    /\ fn.ret = LargestLen - 1

\* C8: for every positive budget of mb megabytes (a u32), new(mb) returns a table
\* of floor(mb * 1024 * 1024 / 8) slots, more than 0, all zero, at generation 0.
C8_NewLength ==
    (fn.op = "new" /\ fn.done) =>
        /\ ~fn.panics
        /\ fn.size = fn.mb * ((Mebi * Mebi) \div SizeOfTTEntry)
        /\ fn.size > 0
        /\ \A i \in DOMAIN fn.first : fn.first[i] = ZeroWord
        /\ fn.epoch = 0

\* C9: score_from_tt(score_to_tt(score, ply), ply) = score for every i16 score and
\* every ply >= 0.
C9_FromAfterTo ==
    (fn.op = "to_from" /\ fn.done) => (~fn.panics /\ fn.back = fn.score)

\* C10 as stated: score_to_tt(score_from_tt(s, ply), ply) = s for every score s,
\* those at and just beyond the thresholds included.
C10_ToAfterFrom_AnyScore ==
    (fn.op = "from_to" /\ fn.done) => (~fn.panics /\ fn.back = fn.score)

\* C10 as amended: score_to_tt(score_from_tt(s, ply), ply) = s for every ply >= 0
\* and every score s strictly between the thresholds, at least ply above the win
\* threshold, or at least ply below the loss threshold.
C10_ToAfterFrom ==
    (/\ fn.op = "from_to" /\ fn.done
     /\ \/ TB_LOSS_IN_PLY < fn.score /\ fn.score < TB_WIN_IN_PLY
        \/ fn.score >= TB_WIN_IN_PLY + fn.ply
        \/ fn.score <= TB_LOSS_IN_PLY - fn.ply)
        => (~fn.panics /\ fn.back = fn.score)

\* a win score at least ply > 0 above the threshold went to root space and back
C10_Witness ==
    /\ fn.op = "from_to" /\ fn.done
    /\ fn.ply > 0
    /\ fn.score >= TB_WIN_IN_PLY + fn.ply
    /\ fn.mid = fn.score - fn.ply
    /\ fn.back = fn.score

\* C11: for every from and to square and every promotion in {none, Knight,
\* Bishop, Rook, Queen}, PackedMove::new(Some(mv)).unpack() returns mv, and
\* neither function reaches unreachable!().
C11_PackUnpackRoundTrip ==
    (fn.op = "pack" /\ fn.done) => (~fn.panics /\ fn.back = fn.mv)

\* a queen promotion between the two highest squares went through the round trip
C11_Witness ==
    /\ fn.op = "pack" /\ fn.done
    /\ fn.mv = Mv(63, 63, "Queen")
    /\ fn.packed = 63 + 63 * 64 + 7 * 4096

\* C12: for every age in 0..63 and every flag, the byte is age << 2 | flag and
\* decodes to the same age and the same flag.
C12_AgeFlagRoundTrip ==
    (fn.op = "age_flag" /\ fn.done) =>
        /\ fn.byte = fn.age * 4 + FlagBits(fn.flag)
        /\ fn.age_back = fn.age
        /\ fn.flag_back = fn.flag

\* the largest age went through the round trip with the flag of both bits set
C12_Witness ==
    /\ fn.op = "age_flag" /\ fn.done
    /\ fn.age = EPOCH_MAX /\ fn.flag = "UpperBound"
    /\ fn.byte = U8 - 1

\* C13: PackedMove::unpack returns a move for every 16-bit word, the words
\* of promotion tag 001, 010 and 011 among them, and never panics.
C13_UnpackTotal ==
    (fn.op = "unpack" /\ fn.done) =>
        (~fn.panics /\ fn.ret.promotion \in Promotions)

\* C16: for every age in 0..63 and depth in 0..255, TTEntry::quality returns
\* the integer age * 2 + depth, without overflow or wrap.
C16_QualityIsAgeTwicePlusDepth ==
    (fn.op = "quality" /\ fn.done) =>
        (~fn.panics /\ fn.ret = fn.age * 2 + fn.depth)

\* the age field of a slot
SlotAge(w) == AgeAndFlag_age(TTEntry_from_u64(w).age_flag)

\* C14: after any sequence of store, age and reset on a new table, the
\* generation is within 0..63 and the age field of every slot is at most 63.
C14_GenerationAndAgesInRange ==
    /\ epoch \in 0 .. EPOCH_MAX
    /\ \A i \in DOMAIN entries : SlotAge(entries[i]) \in 0 .. EPOCH_MAX

\* the generation is at its maximum and a slot holds an entry of that age
C14_Witness ==
    /\ epoch = EPOCH_MAX
    /\ \E i \in DOMAIN entries : SlotAge(entries[i]) = EPOCH_MAX

\* the word w with its age bits cleared and every other bit as it is
SameButAgeZero(old, new) ==
    LET o == TTEntry_from_u64(old)
        e == TTEntry_from_u64(new)
    IN  /\ e.mv = o.mv /\ e.key = o.key /\ e.score = o.score /\ e.depth = o.depth
        /\ AgeAndFlag_flag(e.age_flag) = AgeAndFlag_flag(o.age_flag)
        /\ AgeAndFlag_age(e.age_flag) = 0

\* C18: age() at a generation below 63 adds one to the generation and leaves
\* every slot as it is; at generation 63 its sweep sets the 6 age bits of each
\* slot to 0 and leaves flag, key fragment, move, score and depth unchanged.
C18_AgeFrame ==
    last.op = "age" =>
        IF last.epoch < EPOCH_MAX
        THEN epoch = last.epoch + 1 /\ entries = last.old
        ELSE \A i \in DOMAIN entries : SameButAgeZero(last.old[i], entries[i])

\* the sweep ran over an entry that has a move, a flag and a non-zero age
C18_Witness ==
    /\ last.op = "age" /\ last.epoch = EPOCH_MAX
    /\ \E i \in DOMAIN entries :
          LET o == TTEntry_from_u64(last.old[i])
          IN  /\ o.mv # NOMOVE
              /\ AgeAndFlag_flag(o.age_flag) # "None"
              /\ AgeAndFlag_age(o.age_flag) > 0
              /\ entries[i] # last.old[i]

\* C19: after any sequence of store, age and reset on a new table, run one
\* at a time, the age of every slot is at most the current generation.
C19_AgesAtMostGeneration ==
    \A i \in DOMAIN entries : SlotAge(entries[i]) <= epoch

\* after the wrap of the generation a swept entry is older than the generation
C19_Witness ==
    /\ calls.age > EPOCH_MAX
    /\ \E i \in DOMAIN entries :
          entries[i] # ZeroWord /\ SlotAge(entries[i]) < epoch

\* the three ways a call changes the word of a slot, l being the record of the
\* call: a store whose candidate is of no lower quality, as quality() computes
\* it, than the content of the slot; the sweep of age(); reset()
SlotStoreStep(l, i, old, new) ==
    /\ l.op = "store" /\ l.slot = i
    /\ LET cand == StoreEntry(l.epoch, l.key, l.mv, l.score, l.depth, l.flag, l.ply)
           e == TTEntry_from_u64(new)
       IN  /\ TTEntry_quality(cand) >= TTEntry_quality(TTEntry_from_u64(old))
           /\ e.key = cand.key /\ e.score = cand.score /\ e.depth = cand.depth
           /\ e.age_flag = cand.age_flag

SlotSweepStep(l, old, new) ==
    l.op = "age" /\ l.epoch = EPOCH_MAX /\ SameButAgeZero(old, new)

SlotResetStep(l, new) == l.op = "reset" /\ new = ZeroWord

C15_QualityNeverDecreases ==
    [][\A i \in DOMAIN entries :
          Quality(TTEntry_from_u64(entries'[i])) >= Quality(TTEntry_from_u64(entries[i]))]_vars

\* C15, amended: a slot changes under concurrent stores only by the write of
\* a worker whose record is of no lower quality, as quality() computes it,
\* than the content that worker loaded from the slot.
C15_WriteNotBelowLoaded ==
    [][\A i \in DOMAIN entries :
          entries'[i] # entries[i] =>
              \E w \in Workers :
                  /\ workers[w].pc = "loaded" /\ workers'[w].pc = "idle"
                  /\ TT_index(TableSize(entries), workers[w].call[1].key) = i
                  /\ TTEntry_quality(TTEntry_from_u64(entries'[i]))
                        >= TTEntry_quality(TTEntry_from_u64(workers[w].target))]_vars

\* a lost update at generation 0: a slot holds a record of lower quality than
\* a record written to the table before
C15_Witness ==
    /\ epoch = 0
    /\ \E i \in DOMAIN entries, word \in writes :
          /\ entries[i] # ZeroWord
          /\ entries[i] \in writes
          /\ Quality(TTEntry_from_u64(word)) > Quality(TTEntry_from_u64(entries[i]))

\* C20: in every reachable state, under every interleaving of concurrent
\* stores, the move of each slot is NOMOVE or a move that was passed to a store
\* call whose key has the slot's key fragment, and its promotion tag is one
\* of 0, 4, 5, 6, 7.
C20_MoveBelongsToFragment ==
    \A i \in DOMAIN entries :
        LET e == TTEntry_from_u64(entries[i])
        IN  /\ e.mv = NOMOVE \/ [key |-> e.key, mv |-> e.mv] \in passed
            /\ (e.mv \div 4096) % 8 \in {0, 4, 5, 6, 7}

\* a store with no move replaced an entry of another key fragment that had a
\* move, and left no move in the slot
C20_Witness ==
    \E i \in DOMAIN entries, word \in writes :
        LET e == TTEntry_from_u64(entries[i])
            o == TTEntry_from_u64(word)
        IN  /\ entries[i] # ZeroWord /\ e.mv = NOMOVE
            /\ o.mv # NOMOVE /\ o.key # e.key
            /\ [key |-> o.key, mv |-> o.mv] \in passed
            /\ [key |-> e.key, mv |-> o.mv] \notin passed

====
